---- MODULE Spec2Model ----
(***************************************************************************)
(* Model of the MetroRetail raw-layer loader: the source registry          *)
(* (pipelines/config.py), the manifest ledger and the bulk writer          *)
(* (pipelines/db_utils.py, class DatabaseManager) and the per-file         *)
(* ingestion (pipelines/ingest_csv.py).                                    *)
(*                                                                         *)
(* The database is the pair (manifest, tables).  Every statement sent to   *)
(* it may be rejected (a constraint, a lost connection): the outcome is an *)
(* input of the action that sends it.  A statement that is rejected leaves *)
(* nothing behind, and a commit that fails commits nothing.                *)
(***************************************************************************)
EXTENDS Integers, Sequences, FiniteSets, TLC

\* ------------------------------------------------------------------ bounds
\* the wall clock runs over the seconds 0..MaxTime
MaxTime == 1
\* a source file or a data frame holds at most MaxRows rows
MaxRows == 3
\* batch sizes are drawn from MinBatch..MaxBatch
MaxBatch == 2
\* a destination table holds at most MaxTableRows rows
MaxTableRows == 4

MinBatch == 0 - 1

Times == 0..MaxTime
RowCounts == 0..MaxRows
BatchSizes == MinBatch..MaxBatch

Min(a, b) == IF a <= b THEN a ELSE b

\* a registry in which erp_stores.csv is sent to the table of erp_products.csv
FILE_TABLE_MAP_SharedTable ==
  [f \in {"pos_transactions_header.csv", "pos_transactions_lines.csv",
          "erp_products.csv", "erp_stores.csv", "erp_inventory.csv",
          "crm_customers.csv", "mkt_promotions.csv", "api_weather.csv"} |->
     CASE f = "pos_transactions_header.csv" ->
            [table |-> "Raw.pos_transactions_header", source |-> "POS",
             entity |-> "transactions_header"]
       [] f = "pos_transactions_lines.csv" ->
            [table |-> "Raw.pos_transactions_lines", source |-> "POS",
             entity |-> "transactions_lines"]
       [] f = "erp_products.csv" ->
            [table |-> "Raw.erp_products", source |-> "ERP", entity |-> "products"]
       [] f = "erp_stores.csv" ->
            [table |-> "Raw.erp_products", source |-> "ERP", entity |-> "stores"]
       [] f = "erp_inventory.csv" ->
            [table |-> "Raw.erp_inventory", source |-> "ERP", entity |-> "inventory"]
       [] f = "crm_customers.csv" ->
            [table |-> "Raw.crm_customers", source |-> "CRM", entity |-> "customers"]
       [] f = "mkt_promotions.csv" ->
            [table |-> "Raw.mkt_promotions", source |-> "MKT", entity |-> "promotions"]
       [] f = "api_weather.csv" ->
            [table |-> "Raw.api_weather", source |-> "API", entity |-> "weather"]]

\* ---------------------------------------------------------------- registry
\* config.py, FILE_TABLE_MAP
FILE_TABLE_MAP ==
  [f \in {"pos_transactions_header.csv", "pos_transactions_lines.csv",
          "erp_products.csv", "erp_stores.csv", "erp_inventory.csv",
          "crm_customers.csv", "mkt_promotions.csv", "api_weather.csv"} |->
     CASE f = "pos_transactions_header.csv" ->
            [table |-> "Raw.pos_transactions_header", source |-> "POS",
             entity |-> "transactions_header"]
       [] f = "pos_transactions_lines.csv" ->
            [table |-> "Raw.pos_transactions_lines", source |-> "POS",
             entity |-> "transactions_lines"]
       [] f = "erp_products.csv" ->
            [table |-> "Raw.erp_products", source |-> "ERP", entity |-> "products"]
       [] f = "erp_stores.csv" ->
            [table |-> "Raw.erp_stores", source |-> "ERP", entity |-> "stores"]
       [] f = "erp_inventory.csv" ->
            [table |-> "Raw.erp_inventory", source |-> "ERP", entity |-> "inventory"]
       [] f = "crm_customers.csv" ->
            [table |-> "Raw.crm_customers", source |-> "CRM", entity |-> "customers"]
       [] f = "mkt_promotions.csv" ->
            [table |-> "Raw.mkt_promotions", source |-> "MKT", entity |-> "promotions"]
       [] f = "api_weather.csv" ->
            [table |-> "Raw.api_weather", source |-> "API", entity |-> "weather"]]

RegistryFiles == DOMAIN FILE_TABLE_MAP
Tables == {FILE_TABLE_MAP[f].table : f \in RegistryFiles}

\* str.lower() on the source system codes of the registry
lower(s) ==
  CASE s = "POS" -> "pos"
    [] s = "ERP" -> "erp"
    [] s = "CRM" -> "crm"
    [] s = "MKT" -> "mkt"
    [] s = "API" -> "api"
    [] OTHER -> s

\* datetime.now().strftime('%Y%m%d_%H%M%S') at second t of the modelled day
Digit == <<"0", "1", "2", "3", "4", "5", "6", "7", "8", "9">>
strftime(t) == "20240101_02000" \o Digit[t + 1]

\* a batch id that leaves the entity out
generate_batch_id_NoEntity(source, entity, t) == source \o "_" \o strftime(t)

\* db_utils.generate_batch_id(source, entity), called at second t
generate_batch_id(source, entity, t) ==
  source \o "_" \o entity \o "_" \o strftime(t)

\* the batch id ingest_csv_file mints for a registered file at second t
BatchIdOf(f, t) ==
  generate_batch_id(lower(FILE_TABLE_MAP[f].source), FILE_TABLE_MAP[f].entity, t)

\* ------------------------------------------------------------- data frames
\* a pandas cell: kind k ("int", "str", "nan" = float NaN, "none" = None), text v
IntCell(i) == [k |-> "int", v |-> Digit[i + 1]]
StrCell(s) == [k |-> "str", v |-> s]
NaNCell == [k |-> "nan", v |-> ""]
NoneCell == [k |-> "none", v |-> ""]

\* the value column of row i of a sample file
SampleCell(i) ==
  CASE i = 1 -> StrCell("a")
    [] i = 2 -> NaNCell
    [] i = 3 -> NoneCell
    [] i = 4 -> StrCell("nan")
    [] OTHER -> IntCell(i)

\* pd.read_csv of a file of n rows: the columns of the file
read_csv(n) == [i \in 1..n |-> [id |-> IntCell(i), val |-> SampleCell(i)]]

\* the metadata columns with the two values exchanged
AddMetadata_Swapped(df, batch_id, file_name) ==
  [i \in 1..Len(df) |->
     [id |-> df[i].id, val |-> df[i].val,
      Batch_ID |-> StrCell(file_name), Source_File |-> StrCell(batch_id)]]

\* df['Batch_ID'] = batch_id ; df['Source_File'] = file_name
AddMetadata(df, batch_id, file_name) ==
  [i \in 1..Len(df) |->
     [id |-> df[i].id, val |-> df[i].val,
      Batch_ID |-> StrCell(batch_id), Source_File |-> StrCell(file_name)]]

\* -------------------------------------------------------------- bulk writer
\* a value handed to the driver: SQL NULL, or a text
Null == [null |-> TRUE, text |-> ""]
Text(s) == [null |-> FALSE, text |-> s]

\* df.astype(str): the textual form of a cell
astype_str(c) ==
  CASE c.k = "nan" -> Text("nan")
    [] c.k = "none" -> Text("None")
    [] OTHER -> Text(c.v)

\* df_str.replace(pat, None)
replace(x, pat) == IF ~x.null /\ x.text = pat THEN Null ELSE x

\* the normalisation with the second replace call left out
NormalizeCell_OnlyNan(c) == replace(astype_str(c), "nan")

\* db_utils.py 113-117 on one cell
NormalizeCell(c) == replace(replace(astype_str(c), "nan"), "None")

\* db_utils.py 113-127: data = [tuple(row) for row in df_str.values]
ToTuples(df) ==
  [i \in 1..Len(df) |->
     [id |-> NormalizeCell(df[i].id), val |-> NormalizeCell(df[i].val),
      Batch_ID |-> NormalizeCell(df[i].Batch_ID),
      Source_File |-> NormalizeCell(df[i].Source_File)]]

\* the outcome of the statements of one batch: no fault, or batch `at` fails in
\* `stage`, executemany having sent `done` rows before it failed
NoFault == [at |-> 0, stage |-> "none", done |-> 0]
Faults ==
  {NoFault} \cup
  [at : 1..MaxRows, stage : {"executemany"}, done : {0, 1}] \cup
  [at : 1..MaxRows, stage : {"commit"}, done : {0}]

\* Slice with the end of the slice one short: data[i:i + batch_size - 1]
SliceShort(data, i, batch_size) ==
  SubSeq(data, i + 1, Min(i + batch_size - 1, Len(data)))

\* data[i:i + batch_size] for 0 <= i, batch_size >= 1
Slice(data, i, batch_size) == SubSeq(data, i + 1, Min(i + batch_size, Len(data)))

\* db_utils.py 130-146: the loop over range(0, len(data), batch_size) from offset
\* i (batch number k), and the except clause.  acc is the writer's progress:
\* committed rows, the batches sent, the driver calls made, total_inserted.
RECURSIVE BatchLoop(_, _, _, _, _, _)
BatchLoop(data, batch_size, fault, i, k, acc) ==
  IF i >= Len(data)
  THEN [acc EXCEPT !.ret = acc.total_inserted]
  ELSE
    LET batch == Slice(data, i, batch_size) IN
    IF fault.at = k /\ fault.stage = "executemany"
    THEN [acc EXCEPT !.raised = TRUE,
                     !.batches = Append(@, batch),
                     !.log = @ \o <<"executemany", "rollback">>,
                     !.rolled_back = SubSeq(batch, 1, Min(fault.done, Len(batch) - 1))]
    ELSE IF fault.at = k /\ fault.stage = "commit"
    THEN [acc EXCEPT !.raised = TRUE,
                     !.batches = Append(@, batch),
                     !.log = @ \o <<"executemany", "commit", "rollback">>,
                     !.rolled_back = batch]
    ELSE BatchLoop(data, batch_size, fault, i + batch_size, k + 1,
                   [acc EXCEPT !.committed = @ \o batch,
                               !.batches = Append(@, batch),
                               !.log = @ \o <<"executemany", "commit">>,
                               !.total_inserted = @ + Len(batch)])

NoReturn == 0 - 1
WriterStart ==
  [ret |-> NoReturn, raised |-> FALSE, committed |-> <<>>, batches |-> <<>>,
   log |-> <<>>, total_inserted |-> 0, rolled_back |-> <<>>]

\* bulk_insert_dataframe with commit() in place of rollback() in the except
\* clause: the rows the failed batch had sent are committed
bulk_insert_dataframe_CommitOnError(df, batch_size, fault) ==
  IF Len(df) = 0 \/ batch_size < 0
  THEN [WriterStart EXCEPT !.ret = 0]
  ELSE IF batch_size = 0
  THEN [WriterStart EXCEPT !.raised = TRUE, !.log = <<"commit">>]
  ELSE LET r == BatchLoop(ToTuples(df), batch_size, fault, 0, 1, WriterStart)
       IN IF r.raised
          THEN [r EXCEPT !.committed = @ \o r.rolled_back, !.rolled_back = <<>>]
          ELSE r

\* DatabaseManager.bulk_insert_dataframe(df, table_name, batch_size): what the
\* call returns or raises and the rows it commits to table_name
bulk_insert_dataframe(df, batch_size, fault) ==
  IF Len(df) = 0
  THEN [WriterStart EXCEPT !.ret = 0]
  ELSE IF batch_size = 0
  THEN \* range() arg 3 must not be zero: ValueError inside the try
       [WriterStart EXCEPT !.raised = TRUE, !.log = <<"rollback">>]
  ELSE IF batch_size < 0
  THEN \* range(0, n, negative) is empty
       [WriterStart EXCEPT !.ret = 0]
  ELSE BatchLoop(ToTuples(df), batch_size, fault, 0, 1, WriterStart)

\* ---------------------------------------------------------- manifest ledger
NullTS == 0 - 1

\* the row start_manifest inserts (db_utils.py 50-55) at second t
StartedRecord(source_system, entity_name, source_file, t) ==
  [Source_System |-> source_system, Entity_Name |-> entity_name,
   Source_File |-> source_file, Row_Count |-> 0, Load_Start_TS |-> t,
   Load_End_TS |-> NullTS, Load_Status |-> "STARTED", Error_Message |-> Null]

\* Batch_ID is the unique key of Raw.Ingestion_Manifest: the INSERT of a batch id
\* the ledger already holds is rejected
ManifestUniqueKey(m, batch_id) == batch_id \notin DOMAIN m

\* DatabaseManager.start_manifest: the ledger after the call and what it returns;
\* ok says whether the database accepted the INSERT and the commit
start_manifest(m, batch_id, source_system, entity_name, source_file, t, ok) ==
  IF ok /\ ManifestUniqueKey(m, batch_id)
  THEN [manifest |->
          [b \in DOMAIN m \cup {batch_id} |->
             IF b = batch_id
             THEN StartedRecord(source_system, entity_name, source_file, t)
             ELSE m[b]],
        ret |-> TRUE]
  ELSE [manifest |-> m, ret |-> FALSE]

\* DatabaseManager.complete_manifest: UPDATE ... WHERE Batch_ID = ?, commit,
\* return True; an UPDATE that matches no row is no error
complete_manifest(m, batch_id, row_count, status, error_message, t, ok) ==
  IF ok
  THEN [manifest |->
          [b \in DOMAIN m |->
             IF b = batch_id
             THEN [m[b] EXCEPT !.Row_Count = row_count, !.Load_End_TS = t,
                               !.Load_Status = status,
                               !.Error_Message = error_message]
             ELSE m[b]],
        ret |-> TRUE]
  ELSE [manifest |-> m, ret |-> FALSE]

\* DatabaseManager.truncate_table: the table's rows after the call, and the result
truncate_table(rows, ok) ==
  IF ok THEN [rows |-> <<>>, ret |-> TRUE] ELSE [rows |-> rows, ret |-> FALSE]

\* ------------------------------------------------------------ ingest_csv.py
ParseError == 0 - 1
NoBatch == ""

\* ingest_csv_file with the manifest record started before the registry lookup
ingest_csv_file_StartsFirst(db, file_name, truncate, exists, parse, t) ==
  LET batch_id == generate_batch_id("csv", file_name, t)
      started == start_manifest(db.manifest, batch_id, "CSV", file_name, file_name,
                                t, TRUE)
      registered == file_name \in DOMAIN FILE_TABLE_MAP
  IN [ret |-> exists /\ registered /\ parse # ParseError,
      batch_id |-> batch_id,
      staged |-> IF exists /\ registered /\ parse # ParseError
                 THEN AddMetadata(read_csv(parse), batch_id, file_name)
                 ELSE <<>>,
      manifest |-> started.manifest, tables |-> db.tables]

\* ingest_csv_file(file_name, truncate) at second t on the database db, where
\* exists is file_path.exists() and parse is what pd.read_csv does with the file:
\* ParseError when it raises, else the number of rows it reads
ingest_csv_file(db, file_name, truncate, exists, parse, t) ==
  LET fail(batch_id) ==
        [ret |-> FALSE, batch_id |-> batch_id, staged |-> <<>>,
         manifest |-> db.manifest, tables |-> db.tables]
  IN
  IF ~exists THEN fail(NoBatch)
  ELSE IF file_name \notin DOMAIN FILE_TABLE_MAP THEN fail(NoBatch)
  ELSE
    LET mapping == FILE_TABLE_MAP[file_name]
        batch_id == generate_batch_id(lower(mapping.source), mapping.entity, t)
    IN
    IF parse = ParseError THEN fail(batch_id)
    ELSE [ret |-> TRUE, batch_id |-> batch_id,
          staged |-> AddMetadata(read_csv(parse), batch_id, file_name),
          manifest |-> db.manifest, tables |-> db.tables]

\* FILE_TABLE_MAP.keys(): the registry's file names in insertion order
RegistryOrder ==
  <<"pos_transactions_header.csv", "pos_transactions_lines.csv",
    "erp_products.csv", "erp_stores.csv", "erp_inventory.csv",
    "crm_customers.csv", "mkt_promotions.csv", "api_weather.csv">>

\* ingest_csv.py 116-120: the loop over the registry from position i.  env gives
\* for each file name whether it exists and what pd.read_csv does with it.
RECURSIVE IngestAllLoop(_, _, _, _, _, _)
IngestAllLoop(db, truncate, env, t, i, acc) ==
  IF i > Len(RegistryOrder)
  THEN acc
  ELSE
    LET f == RegistryOrder[i]
        r == ingest_csv_file(db, f, truncate, env[f].exists, env[f].parse, t)
    IN IngestAllLoop([manifest |-> r.manifest, tables |-> r.tables], truncate,
                     env, t, i + 1,
                     [results |-> (f :> r.ret) @@ acc.results,
                      attempts |-> Append(acc.attempts, f),
                      manifest |-> r.manifest, tables |-> r.tables])

\* the registry loop leaving at the first file that fails
RECURSIVE StopAtFailureLoop(_, _, _, _, _, _)
StopAtFailureLoop(db, truncate, env, t, i, acc) ==
  IF i > Len(RegistryOrder)
  THEN acc
  ELSE
    LET f == RegistryOrder[i]
        r == ingest_csv_file(db, f, truncate, env[f].exists, env[f].parse, t)
        acc2 == [results |-> (f :> r.ret) @@ acc.results,
                 attempts |-> Append(acc.attempts, f),
                 manifest |-> r.manifest, tables |-> r.tables]
    IN IF r.ret
       THEN StopAtFailureLoop([manifest |-> r.manifest, tables |-> r.tables],
                              truncate, env, t, i + 1, acc2)
       ELSE acc2

ingest_all_csv_files_StopsAtFailure(db, truncate, env, t) ==
  StopAtFailureLoop(db, truncate, env, t, 1,
                    [results |-> <<>>, attempts |-> <<>>,
                     manifest |-> db.manifest, tables |-> db.tables])

\* ingest_all_csv_files(truncate) at second t: the map it returns, the files it
\* attempted in order, and the database after it
ingest_all_csv_files(db, truncate, env, t) ==
  IngestAllLoop(db, truncate, env, t, 1,
                [results |-> <<>>, attempts |-> <<>>,
                 manifest |-> db.manifest, tables |-> db.tables])

\* all(results.values())
AllTrue(results) == \A f \in DOMAIN results : results[f]
\* any(results.values())
AnyTrue(results) == \E f \in DOMAIN results : results[f]

\* args.file: None when --file is not given, else the text given
NoFileArg == [given |-> FALSE, name |-> ""]
FileArg(n) == [given |-> TRUE, name |-> n]
\* `if args.file:` -- None and the empty text are false
Truthy(file) == file.given /\ file.name # ""

\* the command line with any() in place of all() for --all
main_AnySuccess(db, args, env, t) ==
  IF Truthy(args.file)
  THEN LET r == ingest_csv_file(db, args.file.name, args.truncate,
                                env[args.file.name].exists,
                                env[args.file.name].parse, t)
       IN [exit |-> IF r.ret THEN 0 ELSE 1, attempts |-> <<args.file.name>>,
           results |-> (args.file.name :> r.ret),
           manifest |-> r.manifest, tables |-> r.tables]
  ELSE IF args.all
  THEN LET r == ingest_all_csv_files(db, args.truncate, env, t)
       IN [exit |-> IF AnyTrue(r.results) THEN 0 ELSE 1, attempts |-> r.attempts,
           results |-> r.results, manifest |-> r.manifest, tables |-> r.tables]
  ELSE [exit |-> 1, attempts |-> <<>>, results |-> <<>>,
        manifest |-> db.manifest, tables |-> db.tables]

\* ingest_csv.py 143-166: the command line with parsed arguments args
\* (file, all, truncate): the exit code, the ingestions run and their outcomes
main(db, args, env, t) ==
  IF Truthy(args.file)
  THEN LET r == ingest_csv_file(db, args.file.name, args.truncate,
                                env[args.file.name].exists,
                                env[args.file.name].parse, t)
       IN [exit |-> IF r.ret THEN 0 ELSE 1, attempts |-> <<args.file.name>>,
           results |-> (args.file.name :> r.ret),
           manifest |-> r.manifest, tables |-> r.tables]
  ELSE IF args.all
  THEN LET r == ingest_all_csv_files(db, args.truncate, env, t)
       IN [exit |-> IF AllTrue(r.results) THEN 0 ELSE 1, attempts |-> r.attempts,
           results |-> r.results, manifest |-> r.manifest, tables |-> r.tables]
  ELSE \* parser.print_help(); sys.exit(1)
       [exit |-> 1, attempts |-> <<>>, results |-> <<>>,
        manifest |-> db.manifest, tables |-> db.tables]

\* ------------------------------------------------------------ the pipeline DAG
\* dags/metro_retail_pipeline.py 123: start >> pull_weather_data >> ... >> end
TaskOrder ==
  <<"start", "pull_weather_data", "ingest_csv_files", "dbt_staging",
    "dbt_silver", "dbt_gold", "data_quality_checks", "end">>
TaskIds == {TaskOrder[i] : i \in DOMAIN TaskOrder}
TaskIndex(task) == CHOOSE i \in DOMAIN TaskOrder : TaskOrder[i] = task
\* the task a >> b puts directly before b
Upstream(task) == {u \in TaskIds : TaskIndex(u) + 1 = TaskIndex(task)}
\* DEFAULT_DAG_ARGS['retries']
Retries == 2
\* the arguments the ingest task gives the command line: --all
IngestTaskArgs == [file |-> NoFileArg, all |-> TRUE, truncate |-> FALSE]

\* pull_weather_data(): raises iff the weather script's return code is not 0
pull_weather_data(returncode) == [raised |-> returncode # 0]

\* the ingest task going on whatever the command line returned
ingest_csv_files_IgnoresExit(returncode) == [raised |-> FALSE]

\* ingest_csv_files(): raises iff the return code of `ingest_csv.py --all` is not 0
ingest_csv_files(returncode) == [raised |-> returncode # 0]

\* check_data_quality(): prints and returns True
check_data_quality == [raised |-> FALSE]

\* the state a task instance is left in by a try that raised or did not:
\* it is retried until it has been tried Retries + 1 times
AfterTry(raised, tries) ==
  IF ~raised THEN "success"
  ELSE IF tries <= Retries THEN "up_for_retry" ELSE "failed"

\* a DAG run in which no task has been scheduled
NewRun ==
  [state |-> [task \in TaskIds |-> "none"],
   tries |-> [task \in TaskIds |-> 0],
   log   |-> <<>>,
   cli   |-> <<>>]

\* -------------------------------------------------------------------- state
VARIABLES
  now,       \* the wall clock, in seconds
  manifest,  \* Raw.Ingestion_Manifest: batch id -> record
  tables,    \* the destination tables: table name -> committed rows, in order
  last,      \* the last call made: its name, arguments and outcome
  dag        \* the current run of the Airflow DAG metro_retail_pipeline

vars == <<now, manifest, tables, last, dag>>

\* -------------------------------------------------------------------- inputs
\* file names given to ingest_csv_file
FileArgs == RegistryFiles \cup {"unknown.csv"}
ParseArgs == {ParseError} \cup RowCounts
\* the ledger's callers: the registry entries they load, the batch ids they pass
LedgerFiles == {"erp_products.csv", "erp_stores.csv"}
BatchIdArgs == {BatchIdOf(f, 0) : f \in LedgerFiles}
RowCountArgs == {0, 2}
StatusArgs == {"STARTED", "COMPLETED", "FAILED", "DONE"}
ErrorArgs == {Null, Text("boom")}
\* the writer's callers: frames of 0..MaxRows staged rows of one file
WriterFile == "erp_products.csv"
TableArgs == {FILE_TABLE_MAP[WriterFile].table}
Frame(n) == AddMetadata(read_csv(n), BatchIdOf(WriterFile, 0), WriterFile)
FrameArgs == {Frame(n) : n \in RowCounts}
\* the sample directory: the files of FailSet are absent (kind "absent") or
\* unparsable (kind "corrupt"); every other file exists and holds MaxRows rows
Env(FailSet, kind) ==
  [f \in FileArgs |->
     IF f \in FailSet
     THEN [exists |-> kind # "absent", parse |-> ParseError]
     ELSE [exists |-> TRUE, parse |-> MaxRows]]
FailCandidates == {"pos_transactions_header.csv", "erp_stores.csv", "api_weather.csv"}
EnvArgs == {Env(F, k) : F \in SUBSET FailCandidates, k \in {"absent", "corrupt"}}
\* python ingest_csv.py [--file NAME] [--all] [--truncate]
CliFileArgs ==
  {NoFileArg, FileArg(""), FileArg("erp_stores.csv"), FileArg("unknown.csv")}
CliArgs == [file : CliFileArgs, all : BOOLEAN, truncate : BOOLEAN]

\* the return codes of `python pull_weather_data.py`
ReturnCodes == {0, 1}
\* the tasks whose callable or command cannot fail: the two EmptyOperators and
\* the three `echo` commands
PlainTasks == {"start", "dbt_staging", "dbt_silver", "dbt_gold", "end"}

Init ==
  /\ now = 0
  /\ manifest = <<>>
  /\ tables = [t \in Tables |-> <<>>]
  /\ last = [op |-> "none"]
  /\ dag = NewRun

\* ------------------------------------------------------------------- actions
\* a second passes
Tick ==
  /\ now < MaxTime
  /\ now' = now + 1
  /\ UNCHANGED <<manifest, tables, last, dag>>

StartManifest(batch_id, f, ok) ==
  LET mapping == FILE_TABLE_MAP[f]
      r == start_manifest(manifest, batch_id, mapping.source, mapping.entity, f,
                          now, ok)
  IN /\ manifest' = r.manifest
     /\ last' = [op |-> "start_manifest", batch_id |-> batch_id, ok |-> ok,
                 ret |-> r.ret]
     /\ UNCHANGED <<now, tables, dag>>

CompleteManifest(batch_id, row_count, status, error_message, ok) ==
  LET r == complete_manifest(manifest, batch_id, row_count, status, error_message,
                             now, ok)
  IN /\ manifest' = r.manifest
     /\ last' = [op |-> "complete_manifest", batch_id |-> batch_id,
                 row_count |-> row_count, status |-> status,
                 error_message |-> error_message, ok |-> ok, ret |-> r.ret]
     /\ UNCHANGED <<now, tables, dag>>

TruncateTable(table_name, ok) ==
  LET r == truncate_table(tables[table_name], ok)
  IN /\ tables' = [tables EXCEPT ![table_name] = r.rows]
     /\ last' = [op |-> "truncate_table", table_name |-> table_name, ok |-> ok,
                 ret |-> r.ret]
     /\ UNCHANGED <<now, manifest, dag>>

BulkInsertDataframe(df, table_name, batch_size, fault) ==
  LET r == bulk_insert_dataframe(df, batch_size, fault)
  IN /\ Len(tables[table_name]) + Len(df) <= MaxTableRows
     /\ tables' = [tables EXCEPT ![table_name] = @ \o r.committed]
     /\ last' = [op |-> "bulk_insert_dataframe", df |-> df,
                 table_name |-> table_name, batch_size |-> batch_size,
                 fault |-> fault, before |-> tables[table_name], res |-> r]
     /\ UNCHANGED <<now, manifest, dag>>

IngestCsvFile(file_name, truncate, exists, parse) ==
  LET r == ingest_csv_file([manifest |-> manifest, tables |-> tables], file_name,
                           truncate, exists, parse, now)
  IN /\ manifest' = r.manifest
     /\ tables' = r.tables
     /\ last' = [op |-> "ingest_csv_file", file_name |-> file_name,
                 truncate |-> truncate, exists |-> exists, parse |-> parse,
                 t |-> now, batch_id |-> r.batch_id, staged |-> r.staged,
                 ret |-> r.ret]
     /\ UNCHANGED <<now, dag>>

IngestAllCsvFiles(truncate, env) ==
  LET r == ingest_all_csv_files([manifest |-> manifest, tables |-> tables],
                                truncate, env, now)
  IN /\ manifest' = r.manifest
     /\ tables' = r.tables
     /\ last' = [op |-> "ingest_all_csv_files", truncate |-> truncate, env |-> env,
                 t |-> now, results |-> r.results, attempts |-> r.attempts]
     /\ UNCHANGED <<now, dag>>

Main(args, env) ==
  LET r == main([manifest |-> manifest, tables |-> tables], args, env, now)
  IN /\ manifest' = r.manifest
     /\ tables' = r.tables
     /\ last' = [op |-> "main", args |-> args, env |-> env, t |-> now,
                 exit |-> r.exit, results |-> r.results, attempts |-> r.attempts]
     /\ UNCHANGED <<now, dag>>

\* the scheduler starts a try of a task whose upstream task succeeded
\* (trigger rule all_success); a run's tries are logged in dag.log
TaskStart(task) ==
  /\ dag.state[task] \in {"none", "up_for_retry"}
  /\ \A u \in Upstream(task) : dag.state[u] = "success"
  /\ dag' = [dag EXCEPT !.state[task] = "running",
                        !.tries[task] = @ + 1,
                        !.log = Append(@, task)]
  /\ UNCHANGED <<now, manifest, tables, last>>

\* an EmptyOperator or an echo command ends
PlainTaskEnd(task) ==
  /\ dag.state[task] = "running"
  /\ dag' = [dag EXCEPT !.state[task] = AfterTry(FALSE, dag.tries[task])]
  /\ UNCHANGED <<now, manifest, tables, last>>

\* the try of pull_weather_data ends, its script having returned returncode
PullWeatherData(returncode) ==
  LET task == "pull_weather_data"
      res == pull_weather_data(returncode)
  IN /\ dag.state[task] = "running"
     /\ dag' = [dag EXCEPT !.state[task] = AfterTry(res.raised, dag.tries[task])]
     /\ UNCHANGED <<now, manifest, tables, last>>

\* the try of ingest_csv_files ends: it ran `ingest_csv.py --all` on the
\* directory env; dag.cli keeps what every try of the run got back
IngestCsvFiles(env) ==
  LET task == "ingest_csv_files"
      r == main([manifest |-> manifest, tables |-> tables], IngestTaskArgs, env, now)
      res == ingest_csv_files(r.exit)
  IN /\ dag.state[task] = "running"
     /\ manifest' = r.manifest
     /\ tables' = r.tables
     /\ dag' = [dag EXCEPT !.state[task] = AfterTry(res.raised, dag.tries[task]),
                           !.cli = Append(@, [returncode |-> r.exit,
                                              raised |-> res.raised,
                                              attempts |-> r.attempts,
                                              results |-> r.results])]
     /\ UNCHANGED <<now, last>>

\* the try of data_quality_checks ends
DataQualityChecks ==
  LET task == "data_quality_checks"
  IN /\ dag.state[task] = "running"
     /\ dag' = [dag EXCEPT !.state[task] =
                             AfterTry(check_data_quality.raised, dag.tries[task])]
     /\ UNCHANGED <<now, manifest, tables, last>>

\* a task whose upstream task failed is not run
MarkUpstreamFailed(task) ==
  /\ dag.state[task] = "none"
  /\ \E u \in Upstream(task) : dag.state[u] \in {"failed", "upstream_failed"}
  /\ dag' = [dag EXCEPT !.state[task] = "upstream_failed"]
  /\ UNCHANGED <<now, manifest, tables, last>>

\* the run is over; the schedule begins the next one
DagRun ==
  /\ \A task \in TaskIds : dag.state[task] \in {"success", "failed", "upstream_failed"}
  /\ dag' = NewRun
  /\ UNCHANGED <<now, manifest, tables, last>>

\* the ledger, called with any arguments in any order
NextLedger ==
  \/ \E f \in LedgerFiles, ok \in BOOLEAN : StartManifest(BatchIdOf(f, 0), f, ok)
  \/ \E b \in BatchIdArgs, n \in RowCountArgs, s \in StatusArgs, e \in ErrorArgs,
        ok \in BOOLEAN : CompleteManifest(b, n, s, e, ok)

\* the bulk writer and truncate, called with any arguments in any order
NextWriter ==
  \/ \E t \in TableArgs, ok \in BOOLEAN : TruncateTable(t, ok)
  \/ \E df \in FrameArgs, t \in TableArgs, bs \in BatchSizes, fault \in Faults :
        BulkInsertDataframe(df, t, bs, fault)

\* the ingestion of any file at any second, on a database that may already hold
\* a row, and the record of a load started in the same second
NextIngest ==
  \/ Tick
  \/ \E f \in FileArgs, truncate \in BOOLEAN, exists \in BOOLEAN, parse \in ParseArgs :
        IngestCsvFile(f, truncate, exists, parse)
  \/ StartManifest(BatchIdOf(WriterFile, now), WriterFile, TRUE)
  \/ /\ tables[FILE_TABLE_MAP[WriterFile].table] = <<>>
     /\ BulkInsertDataframe(Frame(1), FILE_TABLE_MAP[WriterFile].table, 1, NoFault)

\* the loader's entry points: one file, every file, the command line
NextLoader ==
  \/ Tick
  \/ \E f \in FileArgs, truncate \in BOOLEAN, exists \in BOOLEAN, parse \in ParseArgs :
        IngestCsvFile(f, truncate, exists, parse)
  \/ \E truncate \in BOOLEAN, env \in EnvArgs : IngestAllCsvFiles(truncate, env)
  \/ \E args \in CliArgs, env \in EnvArgs : Main(args, env)

\* the runs of the DAG metro_retail_pipeline
NextDag ==
  \/ Tick
  \/ \E task \in TaskIds : TaskStart(task)
  \/ \E task \in PlainTasks : PlainTaskEnd(task)
  \/ \E returncode \in ReturnCodes : PullWeatherData(returncode)
  \/ \E env \in EnvArgs : IngestCsvFiles(env)
  \/ DataQualityChecks
  \/ \E task \in TaskIds : MarkUpstreamFailed(task)
  \/ DagRun

Next == NextLedger \/ NextWriter \/ NextIngest \/ NextLoader \/ NextDag

Spec == Init /\ [][Next]_vars
SpecLedger == Init /\ [][NextLedger]_vars
SpecWriter == Init /\ [][NextWriter]_vars
SpecIngest == Init /\ [][NextIngest]_vars
SpecLoader == Init /\ [][NextLoader]_vars
SpecDag == Init /\ [][NextDag]_vars

\* =================================================================== claims
IsIngest == last.op = "ingest_csv_file"
IsWrite == last.op = "bulk_insert_dataframe"
Terminal == {"COMPLETED", "FAILED"}

\* ceil(n / b) for b >= 1
CeilDiv(n, b) == (n + b - 1) \div b

RECURSIVE Flatten(_)
Flatten(ss) == IF ss = <<>> THEN <<>> ELSE Head(ss) \o Flatten(Tail(ss))

RECURSIVE SumLen(_)
SumLen(ss) == IF ss = <<>> THEN 0 ELSE Len(Head(ss)) + SumLen(Tail(ss))

\* C1: when ingest_csv_file returns success for a registered file that exists and
\* parses, the ledger holds a record under the attempt's batch id with status
\* COMPLETED and Row_Count equal to the number of staged rows.
C1_SuccessIsRecorded ==
  (IsIngest /\ last.file_name \in RegistryFiles /\ last.exists
     /\ last.parse # ParseError /\ last.ret)
  => /\ last.batch_id \in DOMAIN manifest
     /\ manifest[last.batch_id].Load_Status = "COMPLETED"
     /\ manifest[last.batch_id].Row_Count = Len(last.staged)

\* C4: an ingestion of a file name that is not in the registry returns False,
\* creates or changes no manifest record and touches no destination table,
\* whether or not the file exists.
C4_UnmappedShortCircuits ==
  [][(last'.op = "ingest_csv_file" /\ last'.file_name \notin RegistryFiles)
       => (~last'.ret /\ manifest' = manifest /\ tables' = tables)]_vars

C4_Witness ==
  /\ IsIngest /\ last.file_name = "unknown.csv" /\ last.exists /\ ~last.ret
  /\ manifest # <<>>
  /\ tables[FILE_TABLE_MAP[WriterFile].table] # <<>>

\* C5: when a write with batch size B >= 1 fails in batch k, the table holds what
\* it held before followed by exactly the rows of batches 1..k-1, batch k was the
\* last batch sent, its work was rolled back, and the call raised (returned nothing).
C5_PartialFailureKeepsEarlierBatches ==
  (IsWrite /\ last.res.raised /\ last.batch_size >= 1)
  => LET data == ToTuples(last.df)
         k == last.fault.at
         kept == (k - 1) * last.batch_size
     IN /\ k >= 1
        /\ kept < Len(data)
        /\ tables[last.table_name] = last.before \o SubSeq(data, 1, kept)
        /\ Len(last.res.batches) = k
        /\ last.res.log[Len(last.res.log)] = "rollback"
        /\ last.res.ret = NoReturn

C5_Witness ==
  /\ IsWrite /\ last.res.raised
  /\ Len(last.df) = 3 /\ last.batch_size = 1 /\ last.fault.at = 2
  /\ last.fault.stage = "executemany"
  /\ Len(tables[last.table_name]) = Len(last.before) + 1

\* C6: when a batch of a write fails, the writer reports the number of rows
\* committed in the earlier batches, and a manifest record ends FAILED with that
\* Row_Count and the cause in Error_Message.
C6_PartialCountReported ==
  (IsWrite /\ last.res.raised /\ last.batch_size >= 1)
  => /\ last.res.ret = last.res.total_inserted
     /\ \E b \in DOMAIN manifest :
          /\ manifest[b].Load_Status = "FAILED"
          /\ manifest[b].Row_Count = last.res.total_inserted
          /\ ~manifest[b].Error_Message.null

\* C7: manifest status is a one-way state machine: every status is STARTED,
\* COMPLETED or FAILED, a record is created STARTED, no record is deleted, a
\* status changes only from STARTED to COMPLETED or FAILED, and a record in a
\* terminal status is never updated again; complete_manifest with a status other
\* than COMPLETED or FAILED changes nothing.
C7_StatusOneWay ==
  [][/\ \A b \in DOMAIN manifest' :
          manifest'[b].Load_Status \in {"STARTED"} \cup Terminal
     /\ \A b \in DOMAIN manifest' \ DOMAIN manifest :
          manifest'[b].Load_Status = "STARTED"
     /\ \A b \in DOMAIN manifest :
          /\ b \in DOMAIN manifest'
          /\ manifest[b].Load_Status \in Terminal => manifest'[b] = manifest[b]
          /\ manifest'[b].Load_Status # manifest[b].Load_Status
               => /\ manifest[b].Load_Status = "STARTED"
                  /\ manifest'[b].Load_Status \in Terminal
     /\ (last'.op = "complete_manifest" /\ last'.status \notin Terminal)
          => manifest' = manifest]_vars

\* C8: complete_manifest for a batch id with no STARTED record returns False,
\* creates no record and leaves every record unchanged.
C8_CompleteNeedsStarted ==
  [][(/\ last'.op = "complete_manifest"
      /\ ~(/\ last'.batch_id \in DOMAIN manifest
           /\ manifest[last'.batch_id].Load_Status = "STARTED"))
       => (~last'.ret /\ manifest' = manifest)]_vars

\* C9: a write of N >= 0 rows with batch size B >= 1 that does not fail sends
\* exactly ceil(N/B) batches, each followed by its commit; the batch sizes sum to
\* N, the batches concatenated are the input in order, the table gains exactly
\* the input, and N is returned.
C9_BatchesPartitionInput ==
  (IsWrite /\ ~last.res.raised /\ last.batch_size >= 1)
  => LET data == ToTuples(last.df)
         n == Len(last.df)
         r == last.res
         nb == CeilDiv(n, last.batch_size)
     IN /\ Len(r.batches) = nb
        /\ Len(r.log) = 2 * nb
        /\ \A j \in 1..nb : r.log[2 * j - 1] = "executemany" /\ r.log[2 * j] = "commit"
        /\ SumLen(r.batches) = n
        /\ Flatten(r.batches) = data
        /\ \A j \in 1..nb : Len(r.batches[j]) >= 1
        /\ tables[last.table_name] = last.before \o data
        /\ r.ret = n

C9_Witness ==
  /\ IsWrite /\ ~last.res.raised
  /\ Len(last.df) = 3 /\ last.batch_size = 2
  /\ Len(last.res.batches) = 2
  /\ last.before # <<>>

\* C10: when the file of a registered entry is absent or cannot be parsed,
\* ingest_csv_file returns False and the ledger holds a FAILED record of the
\* attempt that carries the error text.
C10_ReadFailureIsRecorded ==
  (IsIngest /\ last.file_name \in RegistryFiles
     /\ (~last.exists \/ last.parse = ParseError))
  => /\ ~last.ret
     /\ \E b \in DOMAIN manifest :
          /\ manifest[b].Source_File = last.file_name
          /\ manifest[b].Load_Status = "FAILED"
          /\ ~manifest[b].Error_Message.null

IsIngestAll == last.op = "ingest_all_csv_files"
IsMain == last.op = "main"
CurrentDb == [manifest |-> manifest, tables |-> tables]
\* what ingest_csv_file returns for file f in the sample directory env at second t
OutcomeOf(f, truncate, env, t) ==
  ingest_csv_file(CurrentDb, f, truncate, env[f].exists, env[f].parse, t).ret

\* C11: ingest_all_csv_files attempts every file of the registry exactly once, in
\* registry order, whatever the outcome of the other files, and returns a map
\* whose keys are exactly the registry's file names, each with its own outcome.
C11_EveryFileAttempted ==
  IsIngestAll
  => /\ last.attempts = RegistryOrder
     /\ DOMAIN last.results = RegistryFiles
     /\ \A f \in RegistryFiles :
          last.results[f] = OutcomeOf(f, last.truncate, last.env, last.t)

C11_Witness ==
  /\ IsIngestAll
  /\ ~last.results["pos_transactions_header.csv"]
  /\ ~last.results["erp_stores.csv"]
  /\ last.results["erp_inventory.csv"]
  /\ last.results["mkt_promotions.csv"]
  /\ Len(last.attempts) = Cardinality(RegistryFiles)

\* C12: the command line exits 0 exactly when every ingestion it was asked for
\* returned True -- the one file with --file, every registry file with --all --
\* and exits 1 otherwise, also when neither --file nor --all is given.
C12_ExitCode ==
  IsMain
  => LET file == last.args.file
         one == Truthy(file) /\ ~last.args.all
         every == ~Truthy(file) /\ last.args.all
         neither == ~Truthy(file) /\ ~last.args.all
     IN /\ last.exit \in {0, 1}
        /\ one => (last.exit = 0
                     <=> OutcomeOf(file.name, last.args.truncate, last.env, last.t))
        /\ every => (last.exit = 0
                       <=> \A f \in RegistryFiles :
                             OutcomeOf(f, last.args.truncate, last.env, last.t))
        /\ neither => last.exit = 1

C12_Witness ==
  /\ IsMain /\ ~Truthy(last.args.file) /\ last.args.all
  /\ last.exit = 1
  /\ \E f \in RegistryFiles : last.results[f]
  /\ \E f \in RegistryFiles : ~last.results[f]

\* an ingestion of a registered file that exists, parses and returns True
IngestSucceeded(l) ==
  /\ l.op = "ingest_csv_file" /\ l.file_name \in RegistryFiles
  /\ l.exists /\ l.parse # ParseError /\ l.ret
TargetOf(f) == FILE_TABLE_MAP[f].table

\* C13: a successful ingestion with the truncate flag leaves the destination
\* table holding exactly the rows of this attempt; without the flag the rows the
\* table held before are kept.
C13_TruncateBeforeLoad ==
  [][(IngestSucceeded(last') /\ last' # last)
       => LET tt == TargetOf(last'.file_name) IN
          IF last'.truncate
          THEN tables'[tt] = ToTuples(last'.staged)
          ELSE /\ Len(tables'[tt]) >= Len(tables[tt])
               /\ SubSeq(tables'[tt], 1, Len(tables[tt])) = tables[tt]]_vars

Columns == {"id", "val", "Batch_ID", "Source_File"}
MissingTexts == {"nan", "None"}

\* C14: every cell handed to the insert whose textual form is "nan" or "None" is
\* handed over as NULL, every other cell as its textual form; no row sent or
\* stored holds the text "nan" or "None".
C14_NullNormalization ==
  (IsWrite /\ last.batch_size >= 1)
  => LET sent == Flatten(last.res.batches) IN
     /\ Len(sent) <= Len(last.df)
     /\ \A p \in 1..Len(sent), c \in Columns :
          LET txt == astype_str(last.df[p][c]).text IN
          sent[p][c] = IF txt \in MissingTexts THEN Null ELSE Text(txt)
     /\ \A p \in 1..Len(tables[last.table_name]), c \in Columns :
          LET x == tables[last.table_name][p][c] IN
          x.null \/ x.text \notin MissingTexts

C14_Witness ==
  /\ IsWrite /\ ~last.res.raised /\ Len(last.df) >= 3 /\ last.batch_size >= 1
  /\ last.df[2].val = NaNCell /\ last.df[3].val = NoneCell
  /\ LET rows == tables[last.table_name] IN
     /\ Len(rows) >= 3
     /\ rows[Len(rows) - Len(last.df) + 1].val = Text("a")
     /\ rows[Len(rows) - Len(last.df) + 2].val = Null
     /\ rows[Len(rows) - Len(last.df) + 3].val = Null

\* C15: the batch id of an attempt is lower(source)_entity_YYYYMMDD_HHMMSS, and
\* an attempt for registry file f at second t gets the same id exactly when f is
\* the same registry entry and t the same second.
C15_BatchIdentity ==
  (IsIngest /\ last.batch_id # NoBatch)
  => LET mapping == FILE_TABLE_MAP[last.file_name] IN
     /\ last.batch_id =
          lower(mapping.source) \o "_" \o mapping.entity \o "_" \o strftime(last.t)
     /\ \A f \in RegistryFiles, t \in Times :
          (BatchIdOf(f, t) = last.batch_id) <=> (f = last.file_name /\ t = last.t)

C15_Witness ==
  /\ IsIngest /\ last.file_name = WriterFile /\ last.t = MaxTime
  /\ last.batch_id \in DOMAIN manifest
  /\ manifest[last.batch_id].Load_Start_TS = last.t

\* C16: no manifest record is deleted, an attempt that mints a batch id creates a
\* new manifest record under an id the ledger did not hold, and it changes no
\* record of an earlier attempt.
C16_HistoryPreserved ==
  [][/\ \A b \in DOMAIN manifest : b \in DOMAIN manifest'
     /\ (last'.op = "ingest_csv_file" /\ last' # last /\ last'.batch_id # NoBatch)
          => /\ last'.batch_id \notin DOMAIN manifest
             /\ last'.batch_id \in DOMAIN manifest'
             /\ \A b \in DOMAIN manifest : manifest'[b] = manifest[b]]_vars

C19_BatchSizeAtLeastOne ==
  (IsWrite /\ Len(last.df) > 0 /\ last.batch_size < 1)
  => /\ last.res.raised
     /\ tables[last.table_name] = last.before

\* C20: in a run of the DAG the tries start in the order of the chain, one at a
\* time, each only after every task before it succeeded; every try of the ingest
\* task raised iff the command line returned a non-zero code; and once a
\* transformation task has started, the run's last ingest try attempted every
\* registry file and every one of them succeeded.
Transformations == {"dbt_staging", "dbt_silver", "dbt_gold"}
Started(task) == \E i \in DOMAIN dag.log : dag.log[i] = task
C20_DagOrder ==
  /\ \A i, j \in DOMAIN dag.log :
       i < j => TaskIndex(dag.log[i]) <= TaskIndex(dag.log[j])
  /\ \A task \in TaskIds : Started(task) =>
       \A u \in TaskIds : TaskIndex(u) < TaskIndex(task) => dag.state[u] = "success"
  /\ Cardinality({task \in TaskIds : dag.state[task] = "running"}) <= 1
  /\ \A i \in DOMAIN dag.cli : dag.cli[i].raised <=> dag.cli[i].returncode # 0
  /\ (\E task \in Transformations : Started(task)) =>
       /\ dag.cli # <<>>
       /\ LET c == dag.cli[Len(dag.cli)]
          IN /\ c.returncode = 0
             /\ DOMAIN c.results = RegistryFiles
             /\ \A f \in RegistryFiles : c.results[f]
             /\ \A f \in RegistryFiles : \E i \in DOMAIN c.attempts : c.attempts[i] = f

C20_Witness ==
  /\ Started("dbt_gold")
  /\ Len(dag.cli) = 2
  /\ dag.cli[1].raised
  /\ \E f \in RegistryFiles : ~dag.cli[1].results[f]

\* C21: the registry sends no two file names to the same destination table, so
\* in a run of ingest_all_csv_files (called directly or by --all) the target
\* tables of the files attempted are pairwise different, the load of a file
\* changes no table but its own target, and no table is changed by the loads of
\* two files.
IsAllRun ==
  \/ IsIngestAll
  \/ IsMain /\ ~Truthy(last.args.file) /\ last.args.all
RunTruncate == IF IsIngestAll THEN last.truncate ELSE last.args.truncate
\* the tables the load of file f of the run changes
WrittenBy(f) ==
  LET r == ingest_csv_file(CurrentDb, f, RunTruncate, last.env[f].exists,
                           last.env[f].parse, last.t)
  IN {tb \in Tables : r.tables[tb] # tables[tb]}
C21_DistinctTables ==
  /\ \A f, g \in RegistryFiles : f # g => TargetOf(f) # TargetOf(g)
  /\ IsAllRun =>
       /\ \A i, j \in DOMAIN last.attempts :
            i # j => TargetOf(last.attempts[i]) # TargetOf(last.attempts[j])
       /\ \A i \in DOMAIN last.attempts :
            WrittenBy(last.attempts[i]) \subseteq {TargetOf(last.attempts[i])}
       /\ \A i, j \in DOMAIN last.attempts :
            i # j => WrittenBy(last.attempts[i]) \cap WrittenBy(last.attempts[j]) = {}

C21_Witness ==
  /\ IsIngestAll
  /\ Len(last.attempts) = Cardinality(RegistryFiles)
  /\ last.results["erp_products.csv"] /\ last.results["erp_stores.csv"]
  /\ ~last.results["api_weather.csv"]

====
